---------------------------- MODULE Spec2Model ----------------------------
(***************************************************************************)
(* Model of the two batch programs of the quotes repository:               *)
(*   weight_tags.py            reads site/quotes.json, writes it back with *)
(*                             a weighted_tags field on every record;      *)
(*   build_tag_connections.py  reads site/quotes.json, writes              *)
(*                             site/tag_connections.json.                  *)
(* Python str values are TLA+ strings, lists are sequences, dicts that are *)
(* iterated are sequences of <<key, value>> pairs in insertion order, and  *)
(* a quote is a record whose DOMAIN is the set of keys it carries.         *)
(* Floats are fixed-point integers in units of 1/FIX (4 decimals, the      *)
(* precision every stored score is rounded to); the logarithm and square   *)
(* root are computed in integers and agree with the stored Python values   *)
(* to within one unit.                                                     *)
(***************************************************************************)
EXTENDS Integers, Sequences, FiniteSets, TLC

(***************************************************************************)
(* Bounds of the model.                                                    *)
(***************************************************************************)
MaxRecords == 3        \* longest corpus in site/quotes.json
MaxRuns == 2           \* program runs started in one behaviour

(***************************************************************************)
(* Fixed-point arithmetic: math.log, math.sqrt, round(x, 4).               *)
(***************************************************************************)
FIX == 10000
LogScale == 4 * FIX     \* working precision of the logarithm series

\* round-to-nearest integer quotient of non-negative a by positive b
RoundDiv(a, b) == (2 * a + b) \div (2 * b)

\* (n - d) / (n + d) in units of 1/LogScale, for d <= n < 2 * d
\* (long division in two steps of 200 keeps every product in 32 bits)
AtanhArg(n, d) ==
    LET a == (n - d) * 200
    IN  (a \div (n + d)) * 200 + RoundDiv((a % (n + d)) * 200, n + d)

\* 2 * atanh(z) = 2 * (z + z^3/3 + z^5/5 + z^7/7 + z^9/9), z in units of
\* 1/LogScale, 0 <= z <= 1/3
LnSeries(z) ==
    LET z2 == RoundDiv(z * z, LogScale)
        z3 == RoundDiv(z * z2, LogScale)
        z5 == RoundDiv(z3 * z2, LogScale)
        z7 == RoundDiv(z5 * z2, LogScale)
        z9 == RoundDiv(z7 * z2, LogScale)
    IN  2 * z + RoundDiv(2 * z3, 3) + RoundDiv(2 * z5, 5)
              + RoundDiv(2 * z7, 7) + RoundDiv(2 * z9, 9)

RECURSIVE LogReduce(_, _, _)
\* ln(n / d * 2^k) in units of 1/FIX; 2772589 is ln 2 in units of
\* 1/(100 * LogScale)
LogReduce(n, d, k) ==
    IF n >= 2 * d THEN LogReduce(n, 2 * d, k + 1)
    ELSE IF n < d THEN LogReduce(2 * n, d, k - 1)
    ELSE (k * 2772589 + LnSeries(AtanhArg(n, d)) * 100 + 200) \div 400

\* math.log(x) for x > 0 given in units of 1/FIX; result in units of 1/FIX
\* (within 1.2 units of the float result)
LogFix(x) == LogReduce(x, FIX, 0)

RECURSIVE SqrtSearch(_, _, _)
SqrtSearch(v, lo, hi) ==
    IF lo >= hi THEN lo
    ELSE LET mid == (lo + hi + 1) \div 2
         IN  IF mid * mid <= v THEN SqrtSearch(v, mid, hi)
             ELSE SqrtSearch(v, lo, mid - 1)

\* math.sqrt(x) for 0 <= x <= 1 given in units of 1/FIX
SqrtFix(x) == SqrtSearch(x * FIX, 0, FIX)

(***************************************************************************)
(* Python str operations.                                                  *)
(***************************************************************************)
UpperChars == "ABCDEFGHIJKLMNOPQRSTUVWXYZ"
LowerChars == "abcdefghijklmnopqrstuvwxyz"
Digits == "0123456789_"
Whitespace == {" ", "\t", "\n"}

CharAt(s, i) == SubSeq(s, i, i)

\* the set of the characters of a string
CharSet(chars) == {CharAt(chars, i) : i \in 1..Len(chars)}

UpperSet == CharSet(UpperChars)
WordSet == CharSet(LowerChars) \cup CharSet(UpperChars) \cup CharSet(Digits)

LowerChar(c) ==
    IF c \in UpperSet
    THEN CharAt(LowerChars, CHOOSE i \in 1..Len(UpperChars) : CharAt(UpperChars, i) = c)
    ELSE c

RECURSIVE Lower(_)
\* str.lower(): the text up to the first upper-case letter is kept, that
\* letter is replaced, and the rest is lowered in the same way
Lower(s) ==
    IF \A i \in 1..Len(s) : CharAt(s, i) \notin UpperSet THEN s
    ELSE LET first == CHOOSE i \in 1..Len(s) :
                          /\ CharAt(s, i) \in UpperSet
                          /\ \A k \in 1..(i - 1) : CharAt(s, k) \notin UpperSet
         IN  SubSeq(s, 1, first - 1) \o LowerChar(CharAt(s, first))
                 \o Lower(SubSeq(s, first + 1, Len(s)))

\* sub in s
Contains(s, sub) ==
    \E i \in 1..(Len(s) - Len(sub) + 1) : SubSeq(s, i, i + Len(sub) - 1) = sub

RECURSIVE SplitFrom(_, _, _)
SplitFrom(s, i, word) ==
    IF i > Len(s) THEN (IF word = "" THEN <<>> ELSE <<word>>)
    ELSE IF CharAt(s, i) \in Whitespace
         THEN (IF word = "" THEN <<>> ELSE <<word>>) \o SplitFrom(s, i + 1, "")
         ELSE SplitFrom(s, i + 1, word \o CharAt(s, i))

\* str.split()
Split(s) == SplitFrom(s, 1, "")

\* the regular expression class \w
IsWordChar(c) == c \in WordSet

WordAt(s, p) == p >= 1 /\ p <= Len(s) /\ IsWordChar(CharAt(s, p))

\* the regular expression assertion \b before position p (1..Len(s)+1)
Boundary(s, p) == WordAt(s, p - 1) # WordAt(s, p)

\* the regular expression .* matches s[from..to-1]: no line break in it
DotStar(s, from, to) == \A k \in from..(to - 1) : CharAt(s, k) # "\n"

RECURSIVE MatchWords(_, _, _, _)
\* words[k..] match in s, words[k] starting at or after position from
MatchWords(s, words, k, from) ==
    \E p \in from..(Len(s) - Len(words[k]) + 1) :
        /\ SubSeq(s, p, p + Len(words[k]) - 1) = words[k]
        /\ k > 1 => DotStar(s, from, p)
        /\ Boundary(s, p)
        /\ Boundary(s, p + Len(words[k]))
        /\ (k < Len(words) => MatchWords(s, words, k + 1, p + Len(words[k])))

\* re.search(r'\b' + r'\b.*\b'.join(re.escape(w) for w in words) + r'\b', s)
TagPatternSearch(words, s) ==
    IF words = <<>> THEN \E p \in 1..(Len(s) + 1) : Boundary(s, p)
    ELSE MatchWords(s, words, 1, 1)

(***************************************************************************)
(* Python dict with insertion order: a sequence of <<key, value>> pairs.   *)
(***************************************************************************)
Has(d, k) == \E i \in 1..Len(d) : d[i][1] = k

Get(d, k, default) ==
    IF Has(d, k) THEN d[CHOOSE i \in 1..Len(d) : d[i][1] = k][2] ELSE default

\* d[k] = v: an existing key keeps its place, a new key goes last
Put(d, k, v) ==
    IF Has(d, k)
    THEN LET i == CHOOSE n \in 1..Len(d) : d[n][1] = k
         IN  SubSeq(d, 1, i - 1) \o <<<<k, v>>>> \o SubSeq(d, i + 1, Len(d))
    ELSE Append(d, <<k, v>>)

Keys(d) == {d[i][1] : i \in 1..Len(d)}

\* dict.get on a quote
Field(q, name, default) == IF name \in DOMAIN q THEN q[name] ELSE default

(***************************************************************************)
(* A Python for loop over a list that updates one value.  Each step's      *)
(* value is evaluated before the next step starts (the comparison demands  *)
(* it), so that the evaluation depth does not grow with the list.          *)
(***************************************************************************)
RECURSIVE ForEach(_, _, _, _)
ForEach(Step(_, _), acc, list, i) ==
    IF i > Len(list) THEN acc
    ELSE LET next == Step(acc, list[i])
         IN  IF next = next THEN ForEach(Step, next, list, i + 1) ELSE acc

\* range(a, b + 1) as a list
Range(a, b) == [k \in 1..(b - a + 1) |-> a + k - 1]

\* [t.lower() for t in list]
LowerAll(list) == ForEach(LAMBDA acc, t : Append(acc, Lower(t)), <<>>, list, 1)

(***************************************************************************)
(* Program constants (both scripts define the same EXCLUDED_TAGS).         *)
(* Manual scores are in units of 1/FIX: 4.2 is 42000.                      *)
(***************************************************************************)
EXCLUDED_TAGS == {"book", "pithy", "quote", "people", "trump", "word"}

TopRelated == 15       \* related_list[:15]
MinTagCount == 3       \* count < 3: skip very rare tags
MinCooccur == 2        \* count < 2: need at least 2 co-occurrences
SampleSize == 3        \* random.sample(results, 3)

ALLOWED_PRIMARY_TAGS ==
    {
     "acceptance", "action", "adventure", "age", "ageing", "aim", "ambition",
     "america", "anarchy", "architecture", "art", "artists", "attitude",
     "authority", "australia", "banality", "beauty", "belief", "birth",
     "books", "the brain", "bureaucracy", "calmness", "capitalism",
     "certainty", "chance", "change", "chaos", "childhood", "children",
     "cities", "civilisation", "clarity", "collaboration", "collapse",
     "collecting", "comfort", "complexity", "connections", "consciousness",
     "consumption", "control", "creativity", "culture", "curiosity",
     "danger", "darkness", "death", "decay", "definition", "depth", "design",
     "desire", "destruction", "the devil", "devils", "difficulty",
     "direction", "disaster", "discovery", "doing", "doom", "doubt",
     "dreams", "dying", "earth", "economics", "education", "emotion",
     "the end", "end times", "entropy", "error", "eschatology", "ethics",
     "evil", "evolution", "existence", "expectations", "experience",
     "expression", "eyes", "facts", "failure", "faith", "falsehood", "fear",
     "fire", "freedom", "the future", "gambling", "garbage", "god", "good",
     "government", "gratitude", "happiness", "heaven", "hell", "history",
     "honesty", "humanity", "humankind", "humans", "humility", "humour",
     "ideas", "ignorance", "imagination", "improvement", "individuality",
     "information", "insanity", "intelligence", "interpretation",
     "invention", "jobs", "kings", "knowledge", "labour", "language", "laws",
     "learning", "liars", "libraries", "life", "literature", "living",
     "logic", "looking", "love", "luck", "lying", "machines", "madness",
     "making", "mankind", "mathematics", "meaning", "media", "memory",
     "the mind", "mistakes", "modernity", "money", "monsters", "movement",
     "museums", "music", "narrative", "nature", "the new", "nighttime",
     "odds", "opinion", "order", "originality", "ownership", "pain",
     "painting", "the past", "paths", "patience", "perception", "perfection",
     "perspective", "pessimism", "philosophy", "play", "pleasure", "poems",
     "poetry", "politics", "power", "prediction", "the present",
     "problem solving", "problems", "process", "progress", "property",
     "psychology", "purpose", "quotes", "reading", "reality", "rebellion",
     "religion", "revolution", "ruin", "rules", "sadness", "satisfaction",
     "science", "seeing", "the sea", "the self", "the senses", "serendipity",
     "simplicity", "simplification", "society", "songs", "speaking",
     "spirit", "stories", "storytelling", "stupidity", "success",
     "suffering", "talking", "technology", "thinking", "thought", "time",
     "torture", "travel", "truth", "uncertainty", "understanding",
     "uniqueness", "the unknown", "utopia", "values", "views", "violence",
     "vision", "walking", "wandering", "war", "weakness", "why", "wisdom",
     "wit", "wonder", "words", "work", "the world", "writing"}

MANUAL_CONNECTIONS == <<
    <<"architecture", <<<<"design", 42000>>, <<"cities", 40000>>, <<"art", 35000>>, <<"civilisation", 32000>>, <<"making", 29000>>>>>>,
    <<"attitude", <<<<"perspective", 40000>>, <<"opinion", 38000>>, <<"values", 35000>>, <<"the self", 32000>>>>>>,
    <<"australia", <<<<"travel", 40000>>, <<"adventure", 38000>>, <<"nature", 35000>>, <<"the world", 30000>>>>>>,
    <<"calmness", <<<<"patience", 42000>>, <<"acceptance", 38000>>, <<"the mind", 32000>>, <<"wisdom", 29000>>>>>>,
    <<"complexity", <<<<"simplicity", 42000>>, <<"order", 38000>>, <<"chaos", 35000>>, <<"understanding", 32000>>, <<"science", 28000>>>>>>,
    <<"consumption", <<<<"capitalism", 42000>>, <<"modernity", 38000>>, <<"desire", 35000>>, <<"society", 30000>>>>>>,
    <<"danger", <<<<"fear", 40000>>, <<"destruction", 38000>>, <<"violence", 35000>>, <<"adventure", 32000>>, <<"chaos", 30000>>>>>>,
    <<"depth", <<<<"understanding", 40000>>, <<"perception", 38000>>, <<"the mind", 35000>>, <<"seeing", 30000>>>>>>,
    <<"ethics", <<<<"values", 42000>>, <<"good", 40000>>, <<"honesty", 38000>>, <<"truth", 35000>>, <<"philosophy", 32000>>>>>>,
    <<"freedom", <<<<"anarchy", 42000>>, <<"rebellion", 40000>>, <<"individuality", 38000>>, <<"power", 35000>>, <<"authority", 32000>>>>>>,
    <<"gratitude", <<<<"happiness", 40000>>, <<"acceptance", 35000>>, <<"wisdom", 30000>>, <<"life", 28000>>>>>>,
    <<"heaven", <<<<"hell", 42000>>, <<"god", 40000>>, <<"religion", 38000>>, <<"faith", 35000>>, <<"death", 32000>>>>>>,
    <<"improvement", <<<<"progress", 42000>>, <<"learning", 38000>>, <<"change", 35000>>, <<"process", 32000>>>>>>,
    <<"logic", <<<<"mathematics", 42000>>, <<"thinking", 38000>>, <<"science", 35000>>, <<"philosophy", 32000>>, <<"truth", 30000>>>>>>,
    <<"luck", <<<<"chance", 42000>>, <<"gambling", 40000>>, <<"serendipity", 38000>>, <<"odds", 35000>>, <<"uncertainty", 30000>>>>>>,
    <<"museums", <<<<"collecting", 42000>>, <<"art", 40000>>, <<"culture", 38000>>, <<"libraries", 35000>>, <<"memory", 32000>>>>>>,
    <<"play", <<<<"childhood", 42000>>, <<"imagination", 38000>>, <<"creativity", 35000>>, <<"freedom", 30000>>>>>>,
    <<"prediction", <<<<"the future", 42000>>, <<"uncertainty", 38000>>, <<"odds", 35000>>, <<"science", 32000>>>>>>,
    <<"problems", <<<<"problem solving", 42000>>, <<"difficulty", 40000>>, <<"thinking", 32000>>, <<"understanding", 28000>>>>>>,
    <<"property", <<<<"ownership", 42000>>, <<"laws", 38000>>, <<"capitalism", 35000>>, <<"society", 30000>>>>>>,
    <<"simplification", <<<<"simplicity", 42000>>, <<"complexity", 38000>>, <<"clarity", 35000>>, <<"design", 32000>>>>>>,
    <<"success", <<<<"failure", 42000>>, <<"ambition", 40000>>, <<"money", 35000>>, <<"work", 32000>>>>>>,
    <<"the sea", <<<<"nature", 40000>>, <<"travel", 38000>>, <<"adventure", 35000>>, <<"the world", 32000>>, <<"walking", 30000>>>>>>,
    <<"uniqueness", <<<<"individuality", 42000>>, <<"originality", 40000>>, <<"the self", 35000>>, <<"creativity", 30000>>>>>>,
    <<"acceptance", <<<<"calmness", 40000>>, <<"patience", 38000>>, <<"wisdom", 35000>>, <<"change", 30000>>>>>>,
    <<"beauty", <<<<"wonder", 40000>>, <<"nature", 38000>>, <<"seeing", 35000>>, <<"perception", 32000>>>>>>,
    <<"economics", <<<<"money", 42000>>, <<"consumption", 38000>>, <<"property", 35000>>, <<"society", 30000>>>>>>,
    <<"failure", <<<<"success", 42000>>, <<"learning", 35000>>, <<"doubt", 30000>>>>>>,
    <<"gambling", <<<<"luck", 42000>>, <<"chance", 40000>>, <<"uncertainty", 35000>>>>>>,
    <<"garbage", <<<<"decay", 40000>>, <<"consumption", 38000>>, <<"modernity", 32000>>>>>>,
    <<"good", <<<<"values", 40000>>, <<"ethics", 38000>>, <<"truth", 35000>>>>>>,
    <<"information", <<<<"knowledge", 40000>>, <<"media", 38000>>, <<"technology", 35000>>, <<"truth", 30000>>>>>>,
    <<"interpretation", <<<<"meaning", 40000>>, <<"narrative", 38000>>, <<"understanding", 35000>>, <<"reading", 32000>>>>>>,
    <<"laws", <<<<"government", 40000>>, <<"authority", 38000>>, <<"order", 35000>>, <<"power", 32000>>>>>>,
    <<"mathematics", <<<<"logic", 42000>>, <<"science", 38000>>, <<"order", 32000>>>>>>,
    <<"movement", <<<<"walking", 40000>>, <<"wandering", 38000>>, <<"action", 35000>>, <<"direction", 32000>>>>>>,
    <<"narrative", <<<<"stories", 42000>>, <<"interpretation", 38000>>, <<"meaning", 35000>>, <<"literature", 32000>>>>>>,
    <<"ownership", <<<<"property", 42000>>, <<"capitalism", 35000>>, <<"freedom", 32000>>, <<"power", 30000>>>>>>,
    <<"pleasure", <<<<"satisfaction", 42000>>, <<"happiness", 40000>>, <<"comfort", 38000>>, <<"desire", 35000>>>>>>,
    <<"politics", <<<<"government", 42000>>, <<"power", 40000>>, <<"authority", 38000>>, <<"society", 32000>>>>>>,
    <<"process", <<<<"making", 40000>>, <<"doing", 38000>>, <<"work", 35000>>, <<"design", 30000>>>>>>,
    <<"satisfaction", <<<<"pleasure", 42000>>, <<"happiness", 40000>>, <<"comfort", 35000>>>>>>,
    <<"spirit", <<<<"faith", 40000>>, <<"the self", 38000>>, <<"religion", 35000>>, <<"freedom", 30000>>>>>>,
    <<"talking", <<<<"speaking", 42000>>, <<"language", 40000>>, <<"words", 38000>>>>>>,
    <<"torture", <<<<"suffering", 42000>>, <<"pain", 40000>>, <<"violence", 38000>>, <<"evil", 35000>>>>>>,
    <<"travel", <<<<"adventure", 42000>>, <<"wandering", 38000>>, <<"walking", 35000>>, <<"the world", 32000>>, <<"discovery", 30000>>>>>>,
    <<"wit", <<<<"humour", 42000>>, <<"words", 38000>>, <<"language", 35000>>, <<"intelligence", 30000>>>>>>,
    <<"adventure", <<<<"travel", 40000>>, <<"discovery", 38000>>, <<"the unknown", 35000>>, <<"danger", 32000>>>>>>,
    <<"age", <<<<"time", 40000>>, <<"memory", 38000>>, <<"wisdom", 35000>>, <<"death", 32000>>>>>>,
    <<"certainty", <<<<"faith", 40000>>, <<"truth", 38000>>, <<"belief", 35000>>, <<"knowledge", 32000>>>>>>,
    <<"chaos", <<<<"entropy", 40000>>, <<"destruction", 38000>>, <<"the end", 35000>>, <<"danger", 32000>>>>>>,
    <<"childhood", <<<<"play", 40000>>, <<"education", 38000>>, <<"memory", 35000>>, <<"age", 32000>>>>>>,
    <<"civilisation", <<<<"culture", 42000>>, <<"history", 40000>>, <<"cities", 38000>>, <<"progress", 35000>>, <<"architecture", 32000>>>>>>,
    <<"collaboration", <<<<"process", 40000>>, <<"making", 38000>>, <<"ideas", 35000>>>>>>,
    <<"comfort", <<<<"calmness", 40000>>, <<"pleasure", 38000>>, <<"satisfaction", 35000>>>>>>,
    <<"disaster", <<<<"destruction", 42000>>, <<"chaos", 40000>>, <<"doom", 38000>>, <<"the end", 35000>>, <<"danger", 32000>>>>>>,
    <<"doing", <<<<"making", 40000>>, <<"process", 38000>>, <<"work", 35000>>, <<"living", 32000>>>>>>,
    <<"dreams", <<<<"imagination", 40000>>, <<"nighttime", 38000>>, <<"the unknown", 35000>>, <<"consciousness", 32000>>>>>>,
    <<"emotion", <<<<"sadness", 40000>>, <<"the mind", 38000>>, <<"love", 35000>>, <<"pain", 32000>>>>>>,
    <<"entropy", <<<<"chaos", 42000>>, <<"destruction", 38000>>, <<"doom", 35000>>, <<"time", 32000>>>>>>,
    <<"expression", <<<<"art", 40000>>, <<"language", 38000>>, <<"creativity", 35000>>>>>>,
    <<"jobs", <<<<"labour", 42000>>, <<"money", 35000>>, <<"capitalism", 32000>>, <<"purpose", 30000>>>>>>,
    <<"monsters", <<<<"fear", 40000>>, <<"the devil", 38000>>, <<"hell", 35000>>, <<"violence", 30000>>>>>>,
    <<"music", <<<<"culture", 40000>>, <<"art", 38000>>, <<"poetry", 35000>>, <<"beauty", 32000>>>>>>,
    <<"nighttime", <<<<"dreams", 40000>>, <<"the unknown", 35000>>, <<"fear", 32000>>, <<"death", 28000>>>>>>,
    <<"odds", <<<<"chance", 42000>>, <<"luck", 40000>>, <<"uncertainty", 38000>>, <<"prediction", 35000>>>>>>,
    <<"originality", <<<<"the new", 42000>>, <<"invention", 40000>>, <<"uniqueness", 38000>>, <<"ideas", 35000>>>>>>,
    <<"pain", <<<<"torture", 38000>>, <<"emotion", 35000>>, <<"living", 32000>>, <<"death", 30000>>>>>>,
    <<"painting", <<<<"seeing", 42000>>, <<"vision", 40000>>, <<"beauty", 38000>>, <<"design", 32000>>>>>>,
    <<"perfection", <<<<"simplicity", 40000>>, <<"beauty", 38000>>, <<"making", 32000>>>>>>,
    <<"revolution", <<<<"anarchy", 42000>>, <<"power", 40000>>, <<"freedom", 38000>>, <<"politics", 35000>>, <<"violence", 32000>>>>>>,
    <<"sadness", <<<<"suffering", 40000>>, <<"pain", 38000>>, <<"emotion", 35000>>, <<"death", 32000>>>>>>,
    <<"looking", <<<<"art", 38000>>, <<"wonder", 35000>>, <<"creativity", 32000>>>>>>,
    <<"vision", <<<<"art", 40000>>, <<"creativity", 35000>>, <<"wonder", 32000>>>>>>,
    <<"wonder", <<<<"art", 38000>>, <<"seeing", 35000>>, <<"looking", 32000>>, <<"creativity", 30000>>>>>>,
    <<"the senses", <<<<"seeing", 40000>>, <<"perception", 38000>>, <<"looking", 35000>>, <<"art", 32000>>, <<"experience", 30000>>>>>>,
    <<"eyes", <<<<"looking", 42000>>, <<"vision", 40000>>, <<"wonder", 35000>>>>>>,
    <<"philosophy", <<<<"thinking", 40000>>, <<"the mind", 38000>>, <<"consciousness", 35000>>, <<"knowledge", 32000>>>>>>,
    <<"consciousness", <<<<"the mind", 40000>>, <<"the brain", 38000>>, <<"philosophy", 35000>>>>>>,
    <<"the mind", <<<<"consciousness", 40000>>, <<"philosophy", 35000>>>>>>,
    <<"poetry", <<<<"writing", 40000>>, <<"literature", 38000>>, <<"language", 35000>>>>>>,
    <<"reading", <<<<"writing", 38000>>, <<"language", 35000>>>>>>,
    <<"darkness", <<<<"doom", 38000>>, <<"destruction", 35000>>, <<"death", 32000>>, <<"evil", 30000>>>>>>,
    <<"earth", <<<<"the world", 40000>>, <<"the sea", 35000>>, <<"walking", 30000>>>>>>
    >>

(***************************************************************************)
(* Candidate records of site/quotes.json.  A weighted_tags element is      *)
(* [tag, weight, corpus_score, relevance].                                 *)
(***************************************************************************)
WTag(t, w, c, r) == [tag |-> t, weight |-> w, corpus_score |-> c, relevance |-> r]

\* twelve tags, eleven of them in the vocabulary; "music" is a manual
\* partner of "art", "city" is outside the vocabulary, "reality" has no
\* manual partner; "source" is a field the programs never read
WideQuote ==
    [quote |-> "Life is short, art is long", author |-> "Hippocrates",
     source |-> "Aphorisms",
     tags |-> <<"Art", "music", "life", "time", "death", "love", "truth",
                "nature", "wisdom", "beauty", "city", "reality">>]

\* a tag that is part of the author name, a denylisted tag, and the same
\* tag twice after lowercasing; "humour" is a manual partner of "wit";
\* "reality" is in the vocabulary and has no manual partner
AuthorTagQuote ==
    [quote |-> "I can resist everything except temptation",
     author |-> "Oscar Wilde",
     tags |-> <<"wilde", "Wit", "wit", "book", "humour", "reality">>]

\* curated weighted_tags that hold only a denylisted tag; empty author
CuratedQuote ==
    [quote |-> "The truth is rarely pure and never simple", author |-> "",
     tags |-> <<"Truth">>,
     weighted_tags |-> <<WTag("quote", 5000, 5000, 10000)>>]

\* no author key; curated weighted_tags naming tags that are not in the raw
\* list; a line break between the words of a tag
NoAuthorQuote ==
    [quote |-> "The mind\nknows its self",
     tags |-> <<"Life">>,
     weighted_tags |-> <<WTag("wisdom", 9000, 9000, 10000),
                         WTag("the self", 4000, 8000, 5000)>>]

QuotePool == {WideQuote, AuthorTagQuote, CuratedQuote, NoAuthorQuote}

RECURSIVE SeqsUpTo(_, _)
\* sequences over S of length at most n
SeqsUpTo(S, n) ==
    IF n = 0 THEN {<<>>}
    ELSE LET shorter == SeqsUpTo(S, n - 1)
         IN  shorter \cup {Append(s, x) : s \in shorter, x \in S}

(***************************************************************************)
(* Tag extraction: the block repeated at weight_tags.py 35-38, 124-127     *)
(* and build_tag_connections.py 190-193.                                   *)
(***************************************************************************)
\* q.get('weighted_tags') is truthy
HasWeightedTags(q) == Field(q, "weighted_tags", <<>>) # <<>>

SelectTags(q) ==
    IF HasWeightedTags(q)
    THEN ForEach(LAMBDA acc, t : Append(acc, t.tag), <<>>, q.weighted_tags, 1)
    ELSE LowerAll(Field(q, "tags", <<>>))

NotExcluded(t) == t \notin EXCLUDED_TAGS

\* t not in author and author not in t
NotAuthorLike(t, author) == ~Contains(author, t) /\ ~Contains(t, author)

\* lines 190-198: the tag list of one quote after both filters
FilteredTags(q) ==
    LET author == Lower(Field(q, "author", ""))
    IN  SelectSeq(SelectSeq(SelectTags(q), NotExcluded),
                  LAMBDA t : NotAuthorLike(t, author))

(***************************************************************************)
(* build_cooccurrence_matrix, one quote of the loop.                       *)
(***************************************************************************)
\* for tag in tags: tag_counts[tag] += 1
CountTags(counts, tags) ==
    ForEach(LAMBDA c, tag : Put(c, tag, Get(c, tag, 0) + 1), counts, tags, 1)

\* cooccur[a][b] += 1 on a defaultdict(Counter)
IncPair(co, a, b) ==
    LET row == Get(co, a, <<>>)
    IN  Put(co, a, Put(row, b, Get(row, b, 0) + 1))

\* variant: only the first direction is counted
CountPairOneWay(co, tag1, tag2) == IncPair(co, tag1, tag2)

\* lines 207-208 for one pair of positions i < j
CountPair(co, tag1, tag2) == IncPair(IncPair(co, tag1, tag2), tag2, tag1)

\* lines 205-208: for i, tag1 in enumerate(tags): for tag2 in tags[i+1:]
PairTags(cooccur0, tags) ==
    ForEach(LAMBDA outer, i :
                ForEach(LAMBDA co, j : CountPair(co, tags[i], tags[j]),
                        outer, Range(i + 1, Len(tags)), 1),
            cooccur0, Range(1, Len(tags)), 1)

(***************************************************************************)
(* compute_tag_similarity.                                                 *)
(***************************************************************************)
\* sum(tag_counts.values())
SumCounts(counts) == ForEach(LAMBDA sum, item : sum + item[2], 0, counts, 1)

\* p_both / (p_tag1 * p_tag2) + 0.001 in units of 1/FIX, where every p is a
\* count over total_quotes = total / 2: the quotient is
\* count * total / (2 * c1 * c2)
PmiArgument(count, c1, c2, total) ==
    RoundDiv(count * total * FIX, 2 * c1 * c2) + FIX \div 1000

\* pmi of lines 242-245, in units of 1/FIX
Pmi(count, c1, c2, total) ==
    IF c1 * c2 > 0 THEN LogFix(PmiArgument(count, c1, c2, total)) ELSE 0

\* score = pmi * math.log(count + 1), rounded to 4 decimals (for pmi > 0)
PmiScore(pmi, count) == RoundDiv(pmi * LogFix((count + 1) * FIX), FIX)

\* lines 231-234: the partner is frequent enough and the pair is seen twice
PairCounts(c2, count) == c2 >= MinTagCount /\ count >= MinCooccur

\* lines 230-253 for one (tag2, count) of cooccur[tag1]
SimilarityEntry(sims, tag1, tag2, count, counts, total) ==
    LET pmi == Pmi(count, Get(counts, tag1, 0), Get(counts, tag2, 0), total)
    IN  IF PairCounts(Get(counts, tag2, 0), count) /\ pmi > 0
        THEN Put(sims, tag1, Put(Get(sims, tag1, <<>>), tag2, PmiScore(pmi, count)))
        ELSE sims

\* lines 223-255
compute_tag_similarity(co, counts) ==
    LET total == SumCounts(counts)
    IN  ForEach(LAMBDA outer, item :
                    IF Get(counts, item[1], 0) < MinTagCount THEN outer
                    ELSE ForEach(LAMBDA sims, pair :
                                     SimilarityEntry(sims, item[1], pair[1], pair[2],
                                                     counts, total),
                                 outer, item[2], 1),
                <<>>, co, 1)

(***************************************************************************)
(* expand_manual_connections.                                              *)
(***************************************************************************)
\* lines 267-270 for one (tag, target, score)
ExpandEntry(bidir, tag, target, score) ==
    IF target \in ALLOWED_PRIMARY_TAGS /\ tag \in ALLOWED_PRIMARY_TAGS
    THEN LET forward == Put(bidir, tag, Put(Get(bidir, tag, <<>>), target, score))
         IN  IF ~Has(forward, target) \/ ~Has(Get(forward, target, <<>>), tag)
             THEN Put(forward, target, Put(Get(forward, target, <<>>), tag, score))
             ELSE forward
    ELSE bidir

\* lines 264-271 over a table of <<tag, targets>> rows
ExpandTable(table) ==
    ForEach(LAMBDA outer, row :
                ForEach(LAMBDA bidir, target :
                            ExpandEntry(bidir, row[1], target[1], target[2]),
                        outer, row[2], 1),
            <<>>, table, 1)

expand_manual_connections == ExpandTable(MANUAL_CONNECTIONS)

\* the assignments of lines 268 and 270 for one (tag, target, score), as
\* <<key, other, score>> in the order they are executed: line 268 always,
\* line 270 when the test of line 269 passes
EntryWrites(bidir, tag, target, score) ==
    IF target \in ALLOWED_PRIMARY_TAGS /\ tag \in ALLOWED_PRIMARY_TAGS
    THEN LET forward == Put(bidir, tag, Put(Get(bidir, tag, <<>>), target, score))
         IN  IF ~Has(forward, target) \/ ~Has(Get(forward, target, <<>>), tag)
             THEN <<<<tag, target, score>>, <<target, tag, score>>>>
             ELSE <<<<tag, target, score>>>>
    ELSE <<>>

\* lines 265-271 over a table: the map built so far and every assignment
\* made to it, in execution order
TableWrites(table) ==
    ForEach(LAMBDA outer, row :
                ForEach(LAMBDA acc, target :
                            [bidir |-> ExpandEntry(acc.bidir, row[1],
                                                   target[1], target[2]),
                             writes |-> acc.writes \o
                                        EntryWrites(acc.bidir, row[1],
                                                    target[1], target[2])],
                        outer, row[2], 1),
            [bidir |-> <<>>, writes |-> <<>>], table, 1)

\* the assignments expand_manual_connections makes to bidir
ManualWrites == TableWrites(MANUAL_CONNECTIONS).writes

(***************************************************************************)
(* build_tag_connections, lines 291-321.                                   *)
(***************************************************************************)
\* variant: the computed partner is tested against the denylist instead of
\* the vocabulary
KeepsComputedNotExcluded(other_tag) == other_tag \notin EXCLUDED_TAGS

\* line 303: a computed partner is kept only when it is in the vocabulary
KeepsComputed(other_tag) == other_tag \in ALLOWED_PRIMARY_TAGS

\* lines 301-304
AddComputed(related0, row) ==
    ForEach(LAMBDA related, pair :
                IF KeepsComputed(pair[1]) THEN Put(related, pair[1], pair[2])
                ELSE related,
            related0, row, 1)

\* variant: a manual score also replaces a lower computed score
MergesManualIfHigher(related, other_tag, mscore) ==
    ~Has(related, other_tag) \/ Get(related, other_tag, 0) < mscore

\* line 309: a manual partner is merged only when the tag is not yet related
MergesManual(related, other_tag, mscore) == ~Has(related, other_tag)

\* lines 307-310
AddManual(related0, row) ==
    ForEach(LAMBDA related, pair :
                IF MergesManual(related, pair[1], pair[2])
                THEN Put(related, pair[1], pair[2]) ELSE related,
            related0, row, 1)

\* the dict related of lines 299-310 for one tag
Related(tag, sims, manual) ==
    AddManual(AddComputed(<<>>, Get(sims, tag, <<>>)), Get(manual, tag, <<>>))

RECURSIVE InsertSorted(_, _, _)
\* place e after every element whose score is at least e's (stable, descending)
InsertSorted(list, e, i) ==
    IF i > Len(list) \/ list[i].score < e.score
    THEN SubSeq(list, 1, i - 1) \o <<e>> \o SubSeq(list, i, Len(list))
    ELSE InsertSorted(list, e, i + 1)

\* lines 313-314: list.sort(key=score, reverse=True) of the dict's items
SortByScore(related) ==
    ForEach(LAMBDA sorted, pair :
                InsertSorted(sorted, [tag |-> pair[1], score |-> pair[2]], 1),
            <<>>, related, 1)

\* variant: one entry too many is kept
TruncateOffByOne(list) ==
    SubSeq(list, 1, IF Len(list) < TopRelated + 1 THEN Len(list) ELSE TopRelated + 1)

\* related_list[:15]
Truncate(list) ==
    SubSeq(list, 1, IF Len(list) < TopRelated THEN Len(list) ELSE TopRelated)

\* lines 294-297: the tag gets an output entry
IsOutputKey(tag, count) == count >= MinTagCount /\ tag \in ALLOWED_PRIMARY_TAGS

\* variant: a tag whose related dict is empty gets no entry
AssembleNonEmpty(counts, sims, manual) ==
    ForEach(LAMBDA conns, item :
                IF IsOutputKey(item[1], item[2])
                   /\ Related(item[1], sims, manual) # <<>>
                THEN Put(conns, item[1],
                         [related |-> Truncate(SortByScore(Related(item[1], sims, manual))),
                          quote_count |-> item[2]])
                ELSE conns,
            <<>>, counts, 1)

\* lines 293-319: for tag, count in tag_counts.items()
Assemble(counts, sims, manual) ==
    ForEach(LAMBDA conns, item :
                IF IsOutputKey(item[1], item[2])
                THEN Put(conns, item[1],
                         [related |-> Truncate(SortByScore(Related(item[1], sims, manual))),
                          quote_count |-> item[2]])
                ELSE conns,
            <<>>, counts, 1)

(***************************************************************************)
(* weight_tags.py: the scoring functions.                                  *)
(***************************************************************************)
\* compute_tag_frequencies: Counter over the non-denylisted tags of all quotes
compute_tag_frequencies(quotes) ==
    ForEach(LAMBDA counts, q :
                CountTags(counts, SelectSeq(SelectTags(q), NotExcluded)),
            <<>>, quotes, 1)

\* max(tag_counts.values())
MaxCount(counts) ==
    ForEach(LAMBDA max, item : IF item[2] > max THEN item[2] ELSE max, 0, counts, 1)

\* compute_corpus_frequency_score: log(count + 1) / log(max_count + 1),
\* in units of 1/FIX; the empty table gives the empty dict
compute_corpus_frequency_score(counts) ==
    LET denominator == LogFix((MaxCount(counts) + 1) * FIX)
    IN  [i \in 1..Len(counts) |->
            <<counts[i][1],
              RoundDiv(LogFix((counts[i][2] + 1) * FIX) * FIX, denominator)>>]

\* lines 87-90, in twentieths: 0.4 for the pattern, else 0.2 for a word
\* longer than 3 characters found as a substring, else 0
TextBoost(tag_words, quote_text) ==
    IF TagPatternSearch(tag_words, quote_text) THEN 8
    ELSE IF \E k \in 1..Len(tag_words) :
                Len(tag_words[k]) > 3 /\ Contains(quote_text, tag_words[k])
         THEN 4
         ELSE 0

\* line 93
AuthorPenalty(tag_lower, author) ==
    Contains(author, tag_lower) \/ Contains(tag_lower, author)

\* list.index: the first position of x, counted from 0
IndexOf(list, x) == (CHOOSE i \in 1..Len(list) :
                        list[i] = x /\ \A k \in 1..(i - 1) : list[k] # x) - 1

InList(list, x) == \E i \in 1..Len(list) : list[i] = x

\* variant: the position bonus is added before the author penalty, so it
\* is halved with the rest
ComposeRelevanceBonusFirst(boost, penalized, in_list, position, n) ==
    LET unit == 20 * n
        boosted == 10 * n + boost * n
        bonus == IF in_list THEN 2 * (n - position) ELSE 0
        total == IF penalized THEN (boosted + bonus) \div 2 ELSE boosted + bonus
    IN  [num |-> IF total < unit THEN total ELSE unit, den |-> unit]

\* lines 80-102 on exact fractions: every value is a count of units of
\* 1/unit, unit = 20 * n, n = len(tags_list) (1 when the list is empty)
ComposeRelevance(boost, penalized, in_list, position, n) ==
    LET unit == 20 * n
        base == 10 * n                              \* score = 0.5
        boosted == base + boost * n                 \* score += 0.4 / 0.2
        halved == IF penalized THEN boosted \div 2 ELSE boosted   \* score *= 0.5
        bonus == IF in_list THEN 2 * (n - position) ELSE 0
        total == halved + bonus                     \* score += position_bonus
    IN  [num |-> IF total < unit THEN total ELSE unit, den |-> unit]

\* compute_quote_relevance(quote, tag) as the fraction num / den
compute_quote_relevance(q, tag) ==
    LET tag_lower == Lower(tag)
        quote_text == Lower(Field(q, "quote", ""))
        author == Lower(Field(q, "author", ""))
        tags_list == LowerAll(Field(q, "tags", <<>>))
        in_list == InList(tags_list, tag_lower)
    IN  ComposeRelevance(TextBoost(Split(tag_lower), quote_text),
                         AuthorPenalty(tag_lower, author),
                         in_list,
                         IF in_list THEN IndexOf(tags_list, tag_lower) ELSE 0,
                         IF Len(tags_list) = 0 THEN 1 ELSE Len(tags_list))

\* lines 136-152: the weighted_tags element of one tag
WeightedEntry(q, tag, corpus_scores) ==
    LET corpus_score == Get(corpus_scores, tag, FIX \div 10)
        relevance == compute_quote_relevance(q, tag)
    IN  [tag |-> tag,
         weight |-> RoundDiv(SqrtFix(corpus_score) * relevance.num, relevance.den),
         corpus_score |-> corpus_score,
         relevance |-> RoundDiv(relevance.num * FIX, relevance.den)]

RECURSIVE InsertByWeight(_, _, _)
InsertByWeight(list, e, i) ==
    IF i > Len(list) \/ list[i].weight < e.weight
    THEN SubSeq(list, 1, i - 1) \o <<e>> \o SubSeq(list, i, Len(list))
    ELSE InsertByWeight(list, e, i + 1)

\* lines 131-155: the sorted weighted list of one quote
WeightTags(q, tags, corpus_scores) ==
    ForEach(LAMBDA weighted, tag :
                IF tag \in EXCLUDED_TAGS THEN weighted
                ELSE InsertByWeight(weighted, WeightedEntry(q, tag, corpus_scores), 1),
            <<>>, tags, 1)

\* variant: the result is built from the fields the programs read, so any
\* other field is lost and a missing one is filled in
WithWeightedTagsKnownFields(q, weighted) ==
    [quote |-> Field(q, "quote", ""), author |-> Field(q, "author", ""),
     tags |-> Field(q, "tags", <<>>), weighted_tags |-> weighted]

\* lines 158-159: quote.copy() with weighted_tags set
WithWeightedTags(q, weighted) ==
    [k \in DOMAIN q \cup {"weighted_tags"} |->
        IF k = "weighted_tags" THEN weighted ELSE q[k]]

compute_weighted_tags(quotes) ==
    LET corpus_scores == compute_corpus_frequency_score(compute_tag_frequencies(quotes))
    IN  [i \in 1..Len(quotes) |->
            WithWeightedTags(quotes[i],
                WeightTags(quotes[i], SelectTags(quotes[i]), corpus_scores))]

(***************************************************************************)
(* State of the two programs and of the two files they share.              *)
(* A file is [state, data]: "missing", "ok" (data is the JSON value),      *)
(* "empty" (just truncated by open(path, 'w')) or "partial" (a dump that   *)
(* stopped part-way); only an "ok" file can be loaded.                     *)
(***************************************************************************)
VARIABLES
    quotes_json,        \* site/quotes.json
    connections_json,   \* site/tag_connections.json
    pc,                 \* position of the running main(), or how it ended
    runs,               \* number of runs started
    previous,           \* both files as they were when the run started
    quotes,             \* main: quotes
    idx,                \* build_cooccurrence_matrix: next quote of the loop
    cooccur,            \* build_cooccurrence_matrix: cooccur
    tag_counts,         \* build_cooccurrence_matrix: tag_counts
    similarities,       \* build_tag_connections: similarities
    connections,        \* build_tag_connections: connections
    results             \* weight_tags.main: results

vars == <<quotes_json, connections_json, pc, runs, previous, quotes, idx,
          cooccur, tag_counts, similarities, connections, results>>

File(state, data) == [state |-> state, data |-> data]

NoFile == File("missing", <<>>)

Ended == {"idle", "done", "aborted"}

Init ==
    /\ quotes_json \in {NoFile} \cup
            {File("ok", corpus) : corpus \in SeqsUpTo(QuotePool, MaxRecords)}
    /\ connections_json = NoFile
    /\ pc = "idle"
    /\ runs = 0
    /\ previous = <<quotes_json, NoFile>>
    /\ quotes = <<>>
    /\ idx = 1
    /\ cooccur = <<>>
    /\ tag_counts = <<>>
    /\ similarities = <<>>
    /\ connections = <<>>
    /\ results = <<>>

\* a new process starts with empty locals
FreshLocals ==
    /\ idx' = 1
    /\ cooccur' = <<>>
    /\ tag_counts' = <<>>
    /\ similarities' = <<>>
    /\ connections' = <<>>
    /\ results' = <<>>

(***************************************************************************)
(* build_tag_connections.py main().                                        *)
(***************************************************************************)
\* line 325: load_quotes() raises when the file is missing or is not JSON
ConnectLoad ==
    /\ pc \in Ended
    /\ runs < MaxRuns
    /\ runs' = runs + 1
    /\ previous' = <<quotes_json, connections_json>>
    /\ FreshLocals
    /\ IF quotes_json.state = "ok"
       THEN quotes' = quotes_json.data /\ pc' = "c_count"
       ELSE quotes' = <<>> /\ pc' = "aborted"
    /\ UNCHANGED <<quotes_json, connections_json>>

\* lines 188-208: one iteration of the loop over quotes
ConnectCountQuote ==
    /\ pc = "c_count"
    /\ idx <= Len(quotes)
    /\ LET tags == FilteredTags(quotes[idx])
       IN  /\ tag_counts' = CountTags(tag_counts, tags)
           /\ cooccur' = PairTags(cooccur, tags)
    /\ idx' = idx + 1
    /\ UNCHANGED <<quotes_json, connections_json, pc, runs, previous, quotes,
                   similarities, connections, results>>

\* lines 288-321, then the printing of lines 329-341
ConnectAssemble ==
    /\ pc = "c_count"
    /\ idx > Len(quotes)
    /\ LET sims == compute_tag_similarity(cooccur, tag_counts)
       IN  /\ similarities' = sims
           /\ connections' = Assemble(tag_counts, sims, expand_manual_connections)
    /\ pc' = "c_open"
    /\ UNCHANGED <<quotes_json, connections_json, runs, previous, quotes, idx,
                   cooccur, tag_counts, results>>

\* line 345: open(output_path, 'w') truncates the file, or raises OSError
ConnectOpen ==
    /\ pc = "c_open"
    /\ \/ connections_json' = File("empty", <<>>) /\ pc' = "c_dump"
       \/ connections_json' = connections_json /\ pc' = "aborted"
    /\ UNCHANGED <<quotes_json, runs, previous, quotes, idx, cooccur,
                   tag_counts, similarities, connections, results>>

\* line 346: json.dump writes the file, or stops on an I/O error
ConnectDump ==
    /\ pc = "c_dump"
    /\ \/ connections_json' = File("ok", connections) /\ pc' = "done"
       \/ connections_json' = File("partial", <<>>) /\ pc' = "aborted"
    /\ UNCHANGED <<quotes_json, runs, previous, quotes, idx, cooccur,
                   tag_counts, similarities, connections, results>>

(***************************************************************************)
(* weight_tags.py main().                                                  *)
(***************************************************************************)
\* line 176
WeightLoad ==
    /\ pc \in Ended
    /\ runs < MaxRuns
    /\ runs' = runs + 1
    /\ previous' = <<quotes_json, connections_json>>
    /\ FreshLocals
    /\ IF quotes_json.state = "ok"
       THEN quotes' = quotes_json.data /\ pc' = "w_compute"
       ELSE quotes' = <<>> /\ pc' = "aborted"
    /\ UNCHANGED <<quotes_json, connections_json>>

\* line 179
WeightCompute ==
    /\ pc = "w_compute"
    /\ results' = compute_weighted_tags(quotes)
    /\ pc' = "w_sample"
    /\ UNCHANGED <<quotes_json, connections_json, runs, previous, quotes, idx,
                   cooccur, tag_counts, similarities, connections>>

\* lines 187-199: random.sample(results, 3) raises ValueError on fewer
\* than 3 results
WeightSample ==
    /\ pc = "w_sample"
    /\ pc' = IF Len(results) < SampleSize THEN "aborted" ELSE "w_open"
    /\ UNCHANGED <<quotes_json, connections_json, runs, previous, quotes, idx,
                   cooccur, tag_counts, similarities, connections, results>>

\* line 203
WeightOpen ==
    /\ pc = "w_open"
    /\ \/ quotes_json' = File("empty", <<>>) /\ pc' = "w_dump"
       \/ quotes_json' = quotes_json /\ pc' = "aborted"
    /\ UNCHANGED <<connections_json, runs, previous, quotes, idx, cooccur,
                   tag_counts, similarities, connections, results>>

\* line 204
WeightDump ==
    /\ pc = "w_dump"
    /\ \/ quotes_json' = File("ok", results) /\ pc' = "done"
       \/ quotes_json' = File("partial", <<>>) /\ pc' = "aborted"
    /\ UNCHANGED <<connections_json, runs, previous, quotes, idx, cooccur,
                   tag_counts, similarities, connections, results>>

Next ==
    \/ ConnectLoad
    \/ ConnectCountQuote
    \/ ConnectAssemble
    \/ ConnectOpen
    \/ ConnectDump
    \/ WeightLoad
    \/ WeightCompute
    \/ WeightSample
    \/ WeightOpen
    \/ WeightDump

Spec == Init /\ [][Next]_vars

(***************************************************************************)
(* Views of the state used by the properties.                              *)
(***************************************************************************)
\* tag_counts[tag] on the Counter: 0 for a tag that never occurred
Count(tag) == Get(tag_counts, tag, 0)

\* cooccur[a][b], 0 when there is no entry
Cooccur(a, b) == Get(Get(cooccur, a, <<>>), b, 0)

\* the filtered tag lists of the loaded records, one after the other
FilteredCorpus ==
    ForEach(LAMBDA all, q : all \o FilteredTags(q), <<>>, quotes, 1)

\* the number of times tag stands in the filtered tag lists
\* (build_cooccurrence_matrix adds one per list position)
AggregatedCount(all, tag) == Cardinality({k \in 1..Len(all) : all[k] = tag})

\* connections[tag], for a key of connections
Entry(tag) ==
    connections[CHOOSE i \in 1..Len(connections) : connections[i][1] = tag][2]

\* the tag names of a related list
RelatedTags(list) == {list[j].tag : j \in 1..Len(list)}

\* the tag names of a weighted_tags list, in order
TagNames(weighted) == [j \in 1..Len(weighted) |-> weighted[j].tag]

(***************************************************************************)
(* Properties of build_tag_connections.                                    *)
(***************************************************************************)
\* C1: no tag whose aggregated corpus count is below 3 (a tag that never
\* occurs has count 0) is a key of the output or a related-tag target of a
\* key, whether the target was computed or comes from the manual table.
C1_ThresholdEnforcement ==
    \A i \in 1..Len(connections) :
        /\ Count(connections[i][1]) >= MinTagCount
        /\ \A u \in RelatedTags(connections[i][2].related) :
                Count(u) >= MinTagCount

C3_VocabularyEnforcement ==
    \A i \in 1..Len(connections) :
        /\ connections[i][1] \in ALLOWED_PRIMARY_TAGS
        /\ RelatedTags(connections[i][2].related) \subseteq ALLOWED_PRIMARY_TAGS

\* C3 witness: an output was built from a corpus in which a tag outside the
\* vocabulary is frequent enough to be a key and has a computed score with
\* an output key
C3_Witness ==
    /\ \E i \in 1..Len(tag_counts) :
            /\ tag_counts[i][2] >= MinTagCount
            /\ tag_counts[i][1] \notin ALLOWED_PRIMARY_TAGS
    /\ \E i \in 1..Len(connections) :
            \E u \in Keys(Get(similarities, connections[i][1], <<>>)) :
                u \notin ALLOWED_PRIMARY_TAGS

\* C4: every related list has at most 15 entries, its scores do not
\* increase from first to last, and no partner left out by the truncation
\* has a score strictly greater than a partner that was kept.
C4_CapEnforcement ==
    \A i \in 1..Len(connections) :
        LET list == connections[i][2].related
            full == Related(connections[i][1], similarities,
                            expand_manual_connections)
        IN  /\ Len(list) <= TopRelated
            /\ \A j \in 1..(Len(list) - 1) : list[j].score >= list[j + 1].score
            /\ \A k \in 1..Len(full) :
                    full[k][1] \notin RelatedTags(list)
                        => \A j \in 1..Len(list) : full[k][2] <= list[j].score

\* C4 witness: a key with more than 15 partners of differing scores, cut
\* to 15
C4_Witness ==
    \E i \in 1..Len(connections) :
        LET list == connections[i][2].related
        IN  /\ Len(Related(connections[i][1], similarities,
                           expand_manual_connections)) > TopRelated
            /\ Len(list) = TopRelated
            /\ list[1].score > list[TopRelated].score

(***************************************************************************)
(* Properties of build_cooccurrence_matrix.                                *)
(***************************************************************************)
\* C5: cooccur[a][b] = cooccur[b][a] for all tags a, b, after every record
\* of the loop.
C5_CooccurrenceSymmetry ==
    \A i \in 1..Len(cooccur) :
        \A j \in 1..Len(cooccur[i][2]) :
            LET a == cooccur[i][1]
                b == cooccur[i][2][j][1]
            IN  cooccur[i][2][j][2] = Cooccur(b, a)

\* C5 witness: a second record has been counted, the table holds a pair
\* seen more than once and a record brought the same tag twice
C5_Witness ==
    /\ pc = "c_count"
    /\ idx > 2
    /\ \E a \in Keys(cooccur) :
            \E b \in Keys(cooccur) : a # b /\ Cooccur(a, b) > 1
    /\ \E k \in 1..(idx - 1) :
            LET tags == FilteredTags(quotes[k])
            IN  \E m, n \in 1..Len(tags) : m # n /\ tags[m] = tags[n]

\* C9: there is no tag a with an entry cooccur[a][a].
C9_NoSelfPairs ==
    \A a \in Keys(cooccur) : ~Has(Get(cooccur, a, <<>>), a)

\* C10: counting a record removes a non-denylisted tag only when the tag
\* and the lowercased author are both non-empty and one contains the other;
\* every other non-denylisted tag of the record (all of them when the
\* author is missing or empty) is counted in tag_counts and paired with the
\* record's other kept tags in cooccur.
C10_EmptyAuthorKeepsTags ==
    pc = "c_count" /\ idx > 1 =>
        LET q == quotes[idx - 1]
            author == Lower(Field(q, "author", ""))
            tags == SelectSeq(SelectTags(q), NotExcluded)
            Removable(t) == /\ t # ""
                            /\ author # ""
                            /\ (Contains(author, t) \/ Contains(t, author))
            kept == SelectSeq(tags, LAMBDA t : ~Removable(t))
        IN  \A m \in 1..Len(kept) :
                /\ Count(kept[m]) >= 1
                /\ \A n \in 1..Len(kept) :
                        kept[m] # kept[n] => Cooccur(kept[m], kept[n]) >= 1

(***************************************************************************)
(* Properties of the weighting engine.                                     *)
(***************************************************************************)
\* C6: whenever a loaded record carries a weighted-tag sequence, the empty
\* sequence included, tag extraction takes exactly the tag names of that
\* sequence, in its order, and does not fall back to the raw tags.
C6_WeightedTagsAuthoritative ==
    \A i \in 1..Len(quotes) :
        "weighted_tags" \in DOMAIN quotes[i]
            => SelectTags(quotes[i]) = TagNames(quotes[i].weighted_tags)

C7_FailedRunKeepsOutput ==
    pc = "aborted" =>
        /\ previous[1].state = "ok" => quotes_json = previous[1]
        /\ previous[2].state = "ok" => connections_json = previous[2]

(***************************************************************************)
(* Properties of expand_manual_connections.                                *)
(***************************************************************************)
\* the first assignment made to the direction (a, b)
FirstWrite(a, b) ==
    ManualWrites[CHOOSE i \in 1..Len(ManualWrites) :
                    /\ ManualWrites[i][1] = a /\ ManualWrites[i][2] = b
                    /\ \A j \in 1..(i - 1) :
                            ManualWrites[j][1] # a \/ ManualWrites[j][2] # b]

\* C11: the expanded manual table is bidirectional (a has b iff b has a),
\* and for each direction the score kept is the first one written to that
\* direction: no later assignment, explicit or derived, changes it.
C11_FirstWriterWins ==
    pc = "c_open" =>
        \A a \in Keys(expand_manual_connections) :
            \A b \in Keys(Get(expand_manual_connections, a, <<>>)) :
                /\ Has(Get(expand_manual_connections, b, <<>>), a)
                /\ Get(Get(expand_manual_connections, a, <<>>), b, 0)
                        = FirstWrite(a, b)[3]

C13_WeightingFrame ==
    pc = "w_sample" =>
        /\ Len(results) = Len(quotes)
        /\ quotes = previous[1].data
        /\ \A i \in 1..Len(results) :
                LET list == results[i].weighted_tags
                IN  /\ DOMAIN results[i] = DOMAIN quotes[i] \cup {"weighted_tags"}
                    /\ \A k \in DOMAIN quotes[i] \ {"weighted_tags"} :
                            results[i][k] = quotes[i][k]
                    /\ \A j \in 1..Len(list) : list[j].tag \notin EXCLUDED_TAGS
                    /\ \A j \in 1..(Len(list) - 1) :
                            list[j].weight >= list[j + 1].weight

\* C13 witness: the input holds a record with a field the programs never
\* read and a record without an author; a curated list was replaced by a
\* different one; a denylisted tag was left out; and a list came out in an
\* order other than the order of its tags in the input
C13_Witness ==
    /\ pc = "w_sample"
    /\ \E i \in 1..Len(results) : "source" \in DOMAIN results[i]
    /\ \E i \in 1..Len(results) : "author" \notin DOMAIN results[i]
    /\ \E i \in 1..Len(results) :
            /\ "weighted_tags" \in DOMAIN quotes[i]
            /\ results[i].weighted_tags # quotes[i].weighted_tags
    /\ \E i \in 1..Len(results) :
            /\ \E k \in 1..Len(SelectTags(quotes[i])) :
                    SelectTags(quotes[i])[k] \in EXCLUDED_TAGS
            /\ \E j \in 1..(Len(results[i].weighted_tags) - 1) :
                    results[i].weighted_tags[j].weight
                        > results[i].weighted_tags[j + 1].weight
    /\ \E i \in 1..Len(results) :
            TagNames(results[i].weighted_tags)
                # SelectSeq(SelectTags(quotes[i]), NotExcluded)

=============================================================================
